---- MODULE Spec2Model ----
(***************************************************************************)
(* Model of the uArm JavaScript SDK link layer:                            *)
(*   - SerialCommunication (comm/serial-comm.js): the readiness gate in    *)
(*     the lineParser 'data' handler, open() and send();                   *)
(*   - uArmSDK (uarm/sdk.js): the constructor, open(), sendGCode() and     *)
(*     incoming(), with the ERRORS table of uarm/errors.js, and            *)
(*     setGripper() with its timer.                                        *)
(*                                                                         *)
(* A callback handed to sendGCode is a name; how a call of it ends, by      *)
(* returning or by throwing, is an input of the step that calls it.        *)
(*                                                                         *)
(* An inbound line is a record [marker, id, ws, rest] standing for the     *)
(* text  marker \o id \o (" " if ws) \o rest ; "" in id / rest means that  *)
(* part of the text is absent.  JavaScript's undefined is written          *)
(* Undefined; a regular-expression group that did not take part in the    *)
(* match is Undefined, which is lossless because \d+ and .+ never match    *)
(* the empty text.                                                         *)
(*                                                                         *)
(* uarm/constants.js is not part of the available sources: the marker      *)
(* constants are taken from the protocol description.                      *)
(***************************************************************************)
EXTENDS Integers, Sequences, FiniteSets

\* ------------------------------------------------------------------ bounds
MaxSends == 2
MaxLines == 3
MaxOpens == 1

\* ------------------------------------------------- protocol constants
MESSAGE_GCODE_SEND_PREFIX == "#"
MESSAGE_GCODE_RECEIVE_PREFIX == "refer:"
MESSAGE_TICKING_FEEDBACK_PREFIX == "@"
MESSAGE_ERROR_PREFIX == "E"
TICKING_UARM_READY == "5"

Undefined == ""

\* ----------------------------------------------------------- input sets
GCodes == {"P2220"}
RegexMarkers == {"refer:", "E", "$", "@"}

\* readyCode handed to SerialCommunication by the uArmSDK constructor
readyCode == MESSAGE_TICKING_FEEDBACK_PREFIX \o TICKING_UARM_READY

Line(m, i, w, r) == [marker |-> m, id |-> i, ws |-> w, rest |-> r]

ReadyLine == Line(MESSAGE_TICKING_FEEDBACK_PREFIX, TICKING_UARM_READY, FALSE, "")

\* The lines the device is taken to send: reply lines for the ids of the
\* commands sent, with and without payload; error lines with a payload that
\* is a known error code and one that is not; a status line, a line of the
\* fourth pattern marker, a boot banner line, the sentinel.
Lines ==
  {Line("refer:", "1", TRUE, "ok"), Line("refer:", "2", TRUE, "ok"),
   Line("refer:", "1", TRUE, ""),
   Line("E", "1", TRUE, "ok"), Line("E", "1", TRUE, "21"),
   Line("@", "1", TRUE, "ok"), Line("$", "1", TRUE, "ok"),
   Line("V", "1", TRUE, "ok"),
   ReadyLine}

NoLine == [marker |-> "", id |-> "", ws |-> FALSE, rest |-> ""]

\* The text of a line as the Readline parser delivers it.
Text(l) == l.marker \o l.id \o (IF l.ws THEN " " ELSE "") \o l.rest

\* ------------------------------------------------ JavaScript conversions
DigitChar == <<"0", "1", "2", "3", "4", "5", "6", "7", "8", "9">>

RECURSIVE NumberToString(_)
\* String(n) for a non-negative integer: the property key of a numeric index
NumberToString(n) == IF n < 10 THEN DigitChar[n + 1]
               ELSE NumberToString(n \div 10) \o DigitChar[(n % 10) + 1]

\* String(v) for a string or undefined, as a template literal or a property
\* key converts it
Str(v) == IF v = Undefined THEN "undefined" ELSE v

\* ----------------------------------------------------------- ERRORS table
ERRORS ==
  [c \in 20..25 |->
     CASE c = 20 -> [code |-> "COMMAND_NOT_EXIST", message |-> "Command not exist."]
       [] c = 21 -> [code |-> "PARAMETER", message |-> "Parameter error."]
       [] c = 22 -> [code |-> "ADDRESS_OUT_OF_RANGE", message |-> "The address is out of range."]
       [] c = 23 -> [code |-> "COMMAND_BUFFER_FULL", message |-> "Command buffer is full."]
       [] c = 24 -> [code |-> "POWER_DISCONNECTED", message |-> "UArm lost power."]
       [] c = 25 -> [code |-> "OPERATION_FAILURE", message |-> "Operation failed."]]

NoEntry == [found |-> FALSE, code |-> "", message |-> ""]

\* ERRORS[key]: the entry whose numeric key prints as key, else undefined
ErrorsLookup(key) ==
  IF \E c \in DOMAIN ERRORS : NumberToString(c) = key
  THEN LET c == CHOOSE c \in DOMAIN ERRORS : NumberToString(c) = key
       IN [found |-> TRUE, code |-> ERRORS[c].code, message |-> ERRORS[c].message]
  ELSE NoEntry

\* ----------------------------------------------------------- Error values
NoError == [name |-> "null", message |-> ""]
ErrorOf(m) == [name |-> "Error", message |-> m]

\* new Error(errorHandler): the message is String(errorHandler); an object
\* prints as "[object Object]", undefined gives the empty message
NewErrorOfEntry(e) == ErrorOf(IF e.found THEN "[object Object]" ELSE "")

\* ------------------------------------------------------ pending table
NullWaiter == [state |-> "null", callback |-> "", command |-> ""]
UndefinedWaiter == [state |-> "undefined", callback |-> "", command |-> ""]
LiveWaiter(cb, g) == [state |-> "live", callback |-> cb, command |-> g]

\* variant: the oldest live entry, whatever the key (matching by position)
WaiterAtOldest(wr, key) ==
  IF \E k \in DOMAIN wr : wr[k].state = "live"
  THEN wr[CHOOSE k \in DOMAIN wr :
            /\ wr[k].state = "live"
            /\ \A j \in DOMAIN wr : wr[j].state = "live" => k <= j]
  ELSE UndefinedWaiter

\* wr[key] for a property key given as text
WaiterAt(wr, key) ==
  IF \E k \in DOMAIN wr : NumberToString(k) = key
  THEN wr[CHOOSE k \in DOMAIN wr : NumberToString(k) = key]
  ELSE UndefinedWaiter

\* variant: settling one entry clears the whole table
SetNullAll(wr, key) == [k \in DOMAIN wr |-> NullWaiter]

\* variant: delete wr[key]
SetNullDeletes(wr, key) ==
  [k \in {j \in DOMAIN wr : NumberToString(j) # key} |-> wr[k]]

\* wr[key] = null, for a key that names an existing property
SetNull(wr, key) ==
  [k \in DOMAIN wr |-> IF NumberToString(k) = key THEN NullWaiter ELSE wr[k]]

Truthy(w) == w.state = "live"

\* ------------------------------------------------------------ incoming()
\* /^(refer:|E|\$|@)(\d+)*\s+(.+)*/.exec(data)
RegexExec(data) ==
  IF data.marker \in RegexMarkers /\ data.ws
  THEN [matched |-> TRUE, messageType |-> data.marker,
        messageId |-> data.id, rest |-> data.rest]
  ELSE [matched |-> FALSE, messageType |-> "", messageId |-> Undefined,
        rest |-> Undefined]

CallOf(cb, err, data) == [callback |-> cb, error |-> err, data |-> data]

Outcome(wr, cs, rs, f) == [wr |-> wr, calls |-> cs, reported |-> rs, fault |-> f]

\* The callback closures handed to sendGCode, named in order of creation.
CallbackName(k) == "cb" \o NumberToString(k)

\* what  data.startsWith('ok')  in the callback of getPosition throws when
\* data is undefined
StartsWithOfUndefined ==
  [name |-> "TypeError",
   message |-> "Cannot read properties of undefined (reading 'startsWith')"]

\* what a caller's callback throws, () => { throw new Error(...) }
ThrownByCaller == ErrorOf("thrown by the callback")

\* How a call  callback(error, data)  of a callback handed to sendGCode may
\* end: NoError when it returns, otherwise what it throws.  A caller's
\* callback may return or throw on any call; the callbacks of getPosition
\* and the other parsing getters throw when there is no error and no data.
CallbackThrows(error, data) ==
  {NoError, ThrownByCaller}
  \cup (IF error = NoError /\ data = Undefined
        THEN {StartsWithOfUndefined} ELSE {})

Throwables == {NoError, ThrownByCaller, StartsWithOfUndefined}

\* what  waiter.callback  throws when waiter is undefined or null
CallbackOfNothing(w) ==
  [name |-> "TypeError",
   message |-> "Cannot read properties of " \o w.state
               \o " (reading 'callback')"]

\* variant: a status line is correlated like a reply
IncomingTickSettles(wr, messageId, rest) ==
  LET waiter == WaiterAt(wr, Str(messageId))
  IN IF ~Truthy(waiter)
     THEN Outcome(wr, <<>>, <<>>, NoError)
     ELSE Outcome(SetNull(wr, Str(messageId)),
                  <<CallOf(waiter.callback, NoError, rest)>>, <<>>, NoError)

\* case MESSAGE_TICKING_FEEDBACK_PREFIX: only logs
IncomingTick(wr, messageId, rest) == Outcome(wr, <<>>, <<>>, NoError)

\* the error built for the waiter in the MESSAGE_ERROR_PREFIX case
WaiterError(messageId, rest) ==
  LET errorHandler == ErrorsLookup(Str(messageId))
  IN IF errorHandler.found
     THEN NewErrorOfEntry(errorHandler)
     ELSE ErrorOf("Unknown error [" \o MESSAGE_ERROR_PREFIX \o Str(messageId)
                  \o "]: " \o Str(rest))

\* variant: an error line fails every pending request
IncomingErrorBroadcast(wr, messageId, rest, thrown) ==
  LET waiter == WaiterAt(wr, Str(messageId))
      errorHandler == ErrorsLookup(Str(messageId))
      error == WaiterError(messageId, rest)
      live == {k \in DOMAIN wr : wr[k].state = "live"}
      RECURSIVE All(_)
      All(S) == IF S = {} THEN <<>>
                ELSE LET k == CHOOSE x \in S : \A y \in S : x <= y
                     IN <<CallOf(wr[k].callback, error, Undefined)>> \o All(S \ {k})
  IN IF ~Truthy(waiter)
     THEN Outcome(wr, <<>>, <<>>, CallbackOfNothing(waiter))
     ELSE Outcome(wr, All(live), <<NewErrorOfEntry(errorHandler)>>, NoError)

\* case MESSAGE_ERROR_PREFIX; thrown is how the call of the callback ends
IncomingError(wr, messageId, rest, thrown) ==
  LET waiter == WaiterAt(wr, Str(messageId))
      errorHandler == ErrorsLookup(Str(messageId))
      error == WaiterError(messageId, rest)
  IN IF ~Truthy(waiter)
     THEN Outcome(wr, <<>>, <<>>, CallbackOfNothing(waiter))
     ELSE IF thrown # NoError
     THEN Outcome(wr, <<CallOf(waiter.callback, error, Undefined)>>, <<>>,
                  thrown)
     ELSE Outcome(wr, <<CallOf(waiter.callback, error, Undefined)>>,
                  <<NewErrorOfEntry(errorHandler)>>, NoError)

\* case MESSAGE_GCODE_RECEIVE_PREFIX; thrown is how the call of the callback
\* ends: when it throws, the assignment of null is not reached
IncomingReply(wr, messageId, rest, thrown) ==
  LET waiter == WaiterAt(wr, Str(messageId))
  IN IF ~Truthy(waiter)
     THEN Outcome(wr, <<>>, <<>>,
                  ErrorOf("Unable to find message id: " \o Str(messageId)))
     ELSE IF thrown # NoError
     THEN Outcome(wr, <<CallOf(waiter.callback, NoError, rest)>>, <<>>,
                  thrown)
     ELSE Outcome(SetNull(wr, Str(messageId)),
                  <<CallOf(waiter.callback, NoError, rest)>>, <<>>, NoError)

\* default:
IncomingDefault(wr, messageType) ==
  Outcome(wr, <<>>, <<>>, ErrorOf("Unknown messages type: " \o messageType))

\* else branch: the line does not match the pattern; console.error only
IncomingNoMatch(wr) == Outcome(wr, <<>>, <<>>, NoError)

Incoming(wr, data, thrown) ==
  LET parts == RegexExec(data)
  IN IF parts.matched
     THEN CASE parts.messageType = MESSAGE_TICKING_FEEDBACK_PREFIX ->
                 IncomingTick(wr, parts.messageId, parts.rest)
            [] parts.messageType = MESSAGE_ERROR_PREFIX ->
                 IncomingError(wr, parts.messageId, parts.rest, thrown)
            [] parts.messageType = MESSAGE_GCODE_RECEIVE_PREFIX ->
                 IncomingReply(wr, parts.messageId, parts.rest, thrown)
            [] OTHER -> IncomingDefault(wr, parts.messageType)
     ELSE IncomingNoMatch(wr)

\* how the callback that incoming(data) invokes may end; the callbacks in
\* own are the SDK's that never throw (setGripper's)
MayThrow(wr, data, own) ==
  LET cs == Incoming(wr, data, NoError).calls
  IN IF cs = <<>> THEN {NoError}
     ELSE IF cs[1].callback \in own THEN {NoError}
     ELSE CallbackThrows(cs[1].error, cs[1].data)

\* ------------------------------------------------------ readiness gate
\* variant: no check of this.initialized before emitting 'data'
GateWithoutInitCheck(init, data) ==
  IF Text(data) = readyCode THEN "ready" ELSE "forwarded"

\* the decision of the lineParser 'data' handler for one line
Gate(init, data) ==
  IF Text(data) = readyCode THEN "ready"
  ELSE IF ~init THEN "discarded"
  ELSE "forwarded"

\* variant: the callback of serialport.open resolves the promise itself
AfterOpenCallbackResolved == "resolved"

\* state of an open() promise once the callback of serialport.open has run:
\* it has only registered its 'ready' listener
AfterOpenCallback == "listening"

\* 'ready' emitted: every registered listener calls resolve()
EmitReady(ps) ==
  [i \in DOMAIN ps |-> IF ps[i] = "listening" THEN "resolved" ELSE ps[i]]

\* ------------------------------------------------------------ sendGCode
\* variant: ++this.messageId
NewMsgIdPreIncrement(m) == m + 1

\* const newMsgId = this.messageId++
NewMsgId(m) == m
Bumped(m) == m + 1

\* variant: the line is framed with this.messageId after the increment
ExtendedGCodeStaleId(newMsgId, GCode) ==
  MESSAGE_GCODE_SEND_PREFIX \o NumberToString(newMsgId + 1) \o " " \o GCode

\* `${MESSAGE_GCODE_SEND_PREFIX}${newMsgId} ${GCode}`
ExtendedGCode(newMsgId, GCode) ==
  MESSAGE_GCODE_SEND_PREFIX \o NumberToString(newMsgId) \o " " \o GCode

\* variant: send() without the check of this.initialized
SendAlways(init, out, line) == Append(out, line \o "\n")

\* SerialCommunication.send(line): the lines written to the serial port
Send(init, out, line) == IF ~init THEN out ELSE Append(out, line \o "\n")

\* ------------------------------------------------------------ setGripper
\* setGripper(on) called without its delay argument
NoDelay == -1
GRIPPER_WAIT_ON == 2500
GRIPPER_WAIT_OFF == 1400
GripperDelays == {NoDelay, 0, 500, 3000}

\* `M2232 V${on ? 1 : 0}`
GripperCommand(on) == IF on THEN "M2232 V1" ELSE "M2232 V0"

\* truthiness of the delay argument: undefined and 0 are falsy
DelayTruthy(delay) == delay # NoDelay /\ delay # 0

\* delay || on ? 2500 : 1400, which groups as (delay || on) ? 2500 : 1400
GripperTimeout(on, delay) ==
  IF DelayTruthy(delay) \/ on THEN GRIPPER_WAIT_ON ELSE GRIPPER_WAIT_OFF

\* pc is the state of the promise setGripper returned, timers the number of
\* armed timers, timeout the delay they were armed with
NoGripper == [pc |-> "idle", on |-> FALSE, delay |-> NoDelay, callback |-> "",
              timers |-> 0, timeout |-> 0, waited |-> 0]

\* reject(...) settles a pending promise and does nothing to a settled one
GripperReject(g) == IF g.pc = "pending" THEN [g EXCEPT !.pc = "rejected"] ELSE g

\* the callback setGripper hands to sendGCode, invoked with (error, data)
GripperCallback(g, error, data) ==
  IF error # NoError THEN GripperReject(g)
  ELSE IF data # "ok" THEN GripperReject(g)
  ELSE [g EXCEPT !.timers = g.timers + 1,
                 !.timeout = GripperTimeout(g.on, g.delay)]

RECURSIVE GripperAfterCalls(_, _)
\* the setGripper call after the callback invocations cs of one incoming()
GripperAfterCalls(g, cs) ==
  IF cs = <<>> THEN g
  ELSE GripperAfterCalls(
         IF Head(cs).callback = g.callback
         THEN GripperCallback(g, Head(cs).error, Head(cs).data) ELSE g,
         Tail(cs))

\* ------------------------------------------------------------- the state
VARIABLES
  messageId,          \* uArmSDK.messageId
  waitingResponses,   \* uArmSDK.waitingResponses
  initialized,        \* SerialCommunication.initialized
  port,               \* the SerialPort handle: "closed", "opening", "open"
  opens,              \* the promises returned by open(), in call order
  written,            \* lines passed to serialport.write, in order
  sendLog,            \* history: the sendGCode calls, in call order
  calls,              \* history: command callback invocations, in order
  reported,           \* history: onError invocations, in order
  readyEmits,         \* history: number of 'ready' events emitted
  dataEmits,          \* history: number of 'data' events emitted
  nLines,             \* history: number of lines received from the port
  last,               \* history: the last line received and what it did
  openFaults,         \* history: open() calls whose device open failed
  gripper             \* the promise and timer of a setGripper(on, delay) call

vars == <<messageId, waitingResponses, initialized, port, opens, written,
          sendLog, calls, reported, readyEmits, dataEmits, nLines, last,
          openFaults, gripper>>

EmptyTable == [k \in {} |-> NullWaiter]

NoLast == [line |-> NoLine, gate |-> "none", fault |-> NoError,
           calls |-> <<>>, reported |-> <<>>, before |-> EmptyTable,
           after |-> EmptyTable]

\* new uArmSDK({port, onError, autoOpen}): with autoOpen the SerialPort
\* constructor starts opening the device, otherwise the port stays closed.
Init ==
  /\ messageId = 1
  /\ waitingResponses = EmptyTable
  /\ initialized = FALSE
  /\ port \in {"closed", "opening"}
  /\ opens = <<>>
  /\ written = <<>>
  /\ sendLog = <<>>
  /\ calls = <<>>
  /\ reported = <<>>
  /\ readyEmits = 0
  /\ dataEmits = 0
  /\ nLines = 0
  /\ last = NoLast
  /\ openFaults = {}
  /\ gripper = NoGripper

\* the body of uArmSDK.sendGCode(GCode, callback)
DoSendGCode(GCode, callback) ==
  /\ Len(sendLog) < MaxSends
  /\ callback = CallbackName(Len(sendLog) + 1)
  /\ LET newMsgId == NewMsgId(messageId)
         out == Send(initialized, written, ExtendedGCode(newMsgId, GCode))
     IN /\ messageId' = Bumped(messageId)
        /\ waitingResponses' =
             [k \in DOMAIN waitingResponses \cup {newMsgId} |->
                IF k = newMsgId THEN LiveWaiter(callback, GCode)
                ELSE waitingResponses[k]]
        /\ written' = out
        /\ sendLog' = Append(sendLog,
             [id |-> newMsgId, callback |-> callback, command |-> GCode,
              wrote |-> out # written])
  /\ UNCHANGED <<initialized, port, opens, calls, reported, readyEmits,
                 dataEmits, nLines, last, openFaults>>

\* uArmSDK.sendGCode(GCode, callback), called directly
SendGCode(GCode, callback) ==
  /\ DoSendGCode(GCode, callback)
  /\ UNCHANGED gripper

\* uArmSDK.setGripper(on, delay): sends the command with its own callback
SetGripper(on, delay) ==
  /\ gripper.pc = "idle"
  /\ DoSendGCode(GripperCommand(on), CallbackName(Len(sendLog) + 1))
  /\ gripper' = [pc |-> "pending", on |-> on, delay |-> delay,
                 callback |-> CallbackName(Len(sendLog) + 1),
                 timers |-> 0, timeout |-> 0, waited |-> 0]

\* a timer armed by setGripper's callback fires: resolve(), which settles
\* a pending promise and does nothing to a settled one
GripperTimerFires ==
  /\ gripper.timers > 0
  /\ gripper' = IF gripper.pc = "pending"
                THEN [gripper EXCEPT !.timers = gripper.timers - 1,
                                     !.pc = "resolved",
                                     !.waited = gripper.timeout]
                ELSE [gripper EXCEPT !.timers = gripper.timers - 1]
  /\ UNCHANGED <<messageId, waitingResponses, initialized, port, opens,
                 written, sendLog, calls, reported, readyEmits, dataEmits,
                 nLines, last, openFaults>>

\* uArmSDK.open() -> SerialCommunication.open() -> serialport.open(cb).
\* When serialport.open throws, the catch rejects the promise at once and
\* the port is as it was.  Otherwise a closed port starts opening, and on a
\* port that is open or opening the callback is due with an error; either
\* way cb only runs later.
Open(thrown) ==
  /\ Len(opens) < MaxOpens
  /\ IF thrown
     THEN /\ port' = port
          /\ opens' = Append(opens, "rejected")
          /\ openFaults' = openFaults \cup {Len(opens) + 1}
     ELSE IF port = "closed"
     THEN /\ port' = "opening"
          /\ opens' = Append(opens, "opening")
          /\ openFaults' = openFaults
     ELSE /\ port' = port
          /\ opens' = Append(opens, "refused")
          /\ openFaults' = openFaults
  /\ UNCHANGED <<messageId, waitingResponses, initialized, written, sendLog,
                 calls, reported, readyEmits, dataEmits, nLines, last,
                 gripper>>

OpenCallbacks(ps, st) ==
  [i \in DOMAIN ps |-> IF ps[i] = st THEN AfterOpenCallback ELSE ps[i]]

\* the device handle opens; the callback of the open() call that started it
\* runs (its error argument is ignored by the code)
PortOpened ==
  /\ port = "opening"
  /\ port' = "open"
  /\ opens' = OpenCallbacks(opens, "opening")
  /\ UNCHANGED <<messageId, waitingResponses, initialized, written, sendLog,
                 calls, reported, readyEmits, dataEmits, nLines, last,
                 openFaults, gripper>>

\* the device fails to open; the callback runs with an error it ignores
PortOpenFailed ==
  /\ port = "opening"
  /\ port' = "closed"
  /\ opens' = OpenCallbacks(opens, "opening")
  /\ openFaults' = openFaults \cup {i \in DOMAIN opens : opens[i] = "opening"}
  /\ UNCHANGED <<messageId, waitingResponses, initialized, written, sendLog,
                 calls, reported, readyEmits, dataEmits, nLines, last,
                 gripper>>

\* the callback of an open() call made on a port already open or opening
OpenRefused ==
  /\ \E i \in DOMAIN opens : opens[i] = "refused"
  /\ opens' = OpenCallbacks(opens, "refused")
  /\ UNCHANGED <<messageId, waitingResponses, initialized, port, written,
                 sendLog, calls, reported, readyEmits, dataEmits, nLines, last,
                 openFaults, gripper>>

\* lineParser.on('data', ...): one line arrives from the open port; thrown
\* is how the callback invoked for it, if any, ends
LineParserData(data, thrown) ==
  /\ port = "open"
  /\ nLines < MaxLines
  /\ thrown \in (IF Gate(initialized, data) = "forwarded"
                 THEN MayThrow(waitingResponses, data, {gripper.callback})
                 ELSE {NoError})
  /\ nLines' = nLines + 1
  /\ LET g == Gate(initialized, data)
         r == IF g = "forwarded" THEN Incoming(waitingResponses, data, thrown)
              ELSE Outcome(waitingResponses, <<>>, <<>>, NoError)
     IN /\ initialized' = (IF g = "ready" THEN TRUE ELSE initialized)
        /\ readyEmits' = (IF g = "ready" THEN readyEmits + 1 ELSE readyEmits)
        /\ opens' = (IF g = "ready" THEN EmitReady(opens) ELSE opens)
        /\ dataEmits' = (IF g = "forwarded" THEN dataEmits + 1 ELSE dataEmits)
        /\ waitingResponses' = r.wr
        /\ calls' = calls \o r.calls
        /\ reported' = reported \o r.reported
        /\ last' = [line |-> data, gate |-> g, fault |-> r.fault,
                    calls |-> r.calls, reported |-> r.reported,
                    before |-> waitingResponses, after |-> r.wr]
        /\ gripper' = GripperAfterCalls(gripper, r.calls)
  /\ UNCHANGED <<messageId, port, written, sendLog, openFaults>>

Next ==
  \/ \E g \in GCodes : SendGCode(g, CallbackName(Len(sendLog) + 1))
  \/ \E thrown \in BOOLEAN : Open(thrown)
  \/ PortOpened
  \/ PortOpenFailed
  \/ OpenRefused
  \/ \E l \in Lines, t \in Throwables : LineParserData(l, t)

Spec == Init /\ [][Next]_vars

\* The event loop runs every callback that is due: an open attempt
\* completes, one way or the other, and the callback of a refused open()
\* call runs.  Nothing obliges the device to send a line.
SpecLive ==
  /\ Init /\ [][Next]_vars
  /\ WF_vars(PortOpened \/ PortOpenFailed)
  /\ WF_vars(OpenRefused)

\* the link with one setGripper call as its only command
NextGripper ==
  \/ \E on \in BOOLEAN, delay \in GripperDelays : SetGripper(on, delay)
  \/ GripperTimerFires
  \/ PortOpened
  \/ \E l \in Lines, t \in Throwables : LineParserData(l, t)

SpecGripper == Init /\ [][NextGripper]_vars

TypeOK ==
  /\ messageId \in Nat
  /\ initialized \in BOOLEAN
  /\ port \in {"closed", "opening", "open"}
  /\ nLines \in 0..MaxLines

\* =================================================================== claims
\* helpers over the record of the last line received
LastForwarded == last.gate = "forwarded"
LastParts == RegexExec(last.line)
LastIsReply ==
  LastForwarded /\ LastParts.matched
  /\ LastParts.messageType = MESSAGE_GCODE_RECEIVE_PREFIX
LastIsError ==
  LastForwarded /\ LastParts.matched
  /\ LastParts.messageType = MESSAGE_ERROR_PREFIX
\* the pending entry the id on the last line named when the line arrived
LastWaiter == WaiterAt(last.before, Str(LastParts.messageId))
\* the sendGCode calls whose assigned id prints as the id on the last line
LastSenders ==
  {s \in DOMAIN sendLog : NumberToString(sendLog[s].id) = LastParts.messageId}

\* C1: the k-th sendGCode call of an instance is assigned message id k,
\* whatever lines arrived in between and whether or not the link was ready.
C1_IdsAreCallOrdinals ==
  /\ \A k \in DOMAIN sendLog : sendLog[k].id = k
  /\ messageId = Len(sendLog) + 1

\* two sends, the first dropped before readiness and the second written
\* after it, with lines received in between
C1_Witness ==
  /\ Len(sendLog) >= 2
  /\ ~sendLog[1].wrote
  /\ sendLog[2].wrote
  /\ nLines >= 1

\* C2 (as claimed): no callback is ever invoked more than once.
C2_CallbackAtMostOnce ==
  \A i, j \in DOMAIN calls : calls[i].callback = calls[j].callback => i = j

\* C3: a reply line invokes the callback of the sendGCode call that was
\* assigned the id on the line, with the line's payload and no error, and
\* invokes no other callback; it invokes it whenever that entry is pending.
C3_ReplySettlesById ==
  LastIsReply =>
    /\ Len(last.calls) <= 1
    /\ \A c \in DOMAIN last.calls :
         /\ \E s \in LastSenders : sendLog[s].callback = last.calls[c].callback
         /\ last.calls[c].error = NoError
         /\ last.calls[c].data = LastParts.rest
    /\ (\E k \in DOMAIN last.before :
          /\ NumberToString(k) = LastParts.messageId
          /\ last.before[k].state = "live") => Len(last.calls) = 1

\* ids 1 and 2 pending, replies arriving as id 2 then id 1: the callback of
\* the second send is invoked first, the callback of the first send second
C3_Witness ==
  /\ Len(sendLog) >= 2
  /\ Len(calls) = 2
  /\ calls[1] = CallOf(sendLog[2].callback, NoError, "ok")
  /\ calls[2] = CallOf(sendLog[1].callback, NoError, "ok")
  /\ LastIsReply
  /\ last.line.id = "1"

\* C4 (as claimed): a reply line whose id has no pending entry does not
\* throw out of incoming() and leaves the pending table unchanged.
C4_UnmatchedReplyDoesNotThrow ==
  (LastIsReply /\ ~Truthy(LastWaiter)) =>
    /\ last.fault = NoError
    /\ last.after = last.before

\* the numeric code an error line carries after the id, E<id> <code>
CodeEntryOfRest(rest) == ErrorsLookup(rest)

\* the failures that carry a table entry
FailuresOfEntry(e) ==
  {ErrorOf(e.code), ErrorOf(e.message), ErrorOf(e.code \o ": " \o e.message),
   NewErrorOfEntry(e)}

\* C5 (as claimed): an error line E<id> <code> with <id> pending and <code>
\* in the error table fails that request with the table entry of <code>.
C5_KnownCodeFailsWithTableEntry ==
  (LastIsError /\ Truthy(LastWaiter) /\ CodeEntryOfRest(LastParts.rest).found) =>
    /\ Len(last.calls) = 1
    /\ last.calls[1].callback = LastWaiter.callback
    /\ last.calls[1].error \in FailuresOfEntry(CodeEntryOfRest(LastParts.rest))

\* C6 (as claimed): every error line processed by incoming() reaches the
\* link-level observer onError, and a pending request named by the line is
\* failed with the same error.
C6_ErrorLineAlwaysReported ==
  LastIsError =>
    /\ Len(last.reported) = 1
    /\ Truthy(LastWaiter) =>
         /\ Len(last.calls) = 1
         /\ last.calls[1].error = last.reported[1]

\* C7 (as claimed): an error line whose code is not in the error table
\* does not throw and delivers a failure carrying the raw code and text.
C7_UnknownCodeWellFormed ==
  (LastIsError /\ ~ErrorsLookup(Str(LastParts.messageId)).found
               /\ ~CodeEntryOfRest(LastParts.rest).found) =>
    /\ last.fault = NoError
    /\ \/ \E c \in DOMAIN last.calls :
            last.calls[c].error = WaiterError(LastParts.messageId, LastParts.rest)
       \/ \E r \in DOMAIN last.reported :
            last.reported[r] = WaiterError(LastParts.messageId, LastParts.rest)

\* C8: while the readiness sentinel has not been seen, no line is emitted
\* as 'data', no callback or observer runs and every registered entry is
\* still pending; a discarded line changes nothing.
C8_NothingBeforeReady ==
  /\ ~initialized =>
       /\ dataEmits = 0
       /\ calls = <<>>
       /\ reported = <<>>
       /\ \A k \in DOMAIN waitingResponses : waitingResponses[k].state = "live"
  /\ last.gate = "discarded" =>
       /\ last.calls = <<>>
       /\ last.reported = <<>>
       /\ last.after = last.before
       /\ last.fault = NoError

\* a reply line for the id of an early sendGCode call, received before the
\* sentinel and discarded
C8_Witness ==
  /\ ~initialized
  /\ last.gate = "discarded"
  /\ last.line = Line(MESSAGE_GCODE_RECEIVE_PREFIX, "1", TRUE, "ok")
  /\ 1 \in DOMAIN waitingResponses
  /\ waitingResponses[1].state = "live"

\* C9 (as claimed): the readiness transition is signalled at most once: a
\* sentinel line received when the link is already ready emits no 'ready'.
C9_ReadySignalledOnce == readyEmits <= 1

\* C10: a promise returned by open() is resolved only once the readiness
\* sentinel has been received.
C10_OpenResolvesOnlyWhenReady ==
  \A i \in DOMAIN opens :
    opens[i] = "resolved" => (initialized /\ readyEmits >= 1)

\* an open() promise resolved, after its handle opened
C10_Witness ==
  \E i \in DOMAIN opens : opens[i] = "resolved" /\ port = "open"

\* C11: no line is written to the serial port while the link is not ready:
\* a sendGCode call made before the sentinel writes nothing.
C11_NoWriteBeforeReady ==
  ~initialized =>
    /\ written = <<>>
    /\ \A s \in DOMAIN sendLog : ~sendLog[s].wrote

\* a sendGCode call made before the sentinel, nothing written
C11_Witness ==
  /\ ~initialized
  /\ port = "open"
  /\ Len(sendLog) >= 1
  /\ written = <<>>

\* C12 (as claimed): a send made while the link is not ready reaches the
\* caller as a failure: its callback has been invoked with an error.
C12_NotReadySendFails ==
  \A s \in DOMAIN sendLog :
    ~sendLog[s].wrote =>
      \E c \in DOMAIN calls :
        /\ calls[c].callback = sendLog[s].callback
        /\ calls[c].error # NoError

\* the three message kinds incoming() handles
HandledMarkers ==
  {MESSAGE_TICKING_FEEDBACK_PREFIX, MESSAGE_ERROR_PREFIX,
   MESSAGE_GCODE_RECEIVE_PREFIX}

\* C13 (as claimed): a line of none of the three message kinds, whether or
\* not the pattern accepts it, raises nothing out of incoming(), invokes no
\* callback and leaves the pending table unchanged.
C13_MalformedLineRaisesNothing ==
  (LastForwarded /\ ~(LastParts.matched /\ LastParts.messageType \in HandledMarkers)) =>
    /\ last.fault = NoError
    /\ last.calls = <<>>
    /\ last.reported = <<>>
    /\ last.after = last.before

\* C16 (as claimed): a reply line carrying a payload and the id of a pending
\* command that was written to the port invokes that command's callback
\* with (null, payload), raises nothing, and leaves no pending request
\* under that id.
C16_ReplyResolvesAndRemoves ==
  (LastIsReply /\ Truthy(LastWaiter) /\ last.line.rest # ""
     /\ \A s \in DOMAIN sendLog : sendLog[s].wrote) =>
    /\ last.calls = <<CallOf(LastWaiter.callback, NoError, last.line.rest)>>
    /\ last.fault = NoError
    /\ last.reported = <<>>
    /\ ~Truthy(WaiterAt(last.after, Str(LastParts.messageId)))

LastIsTick ==
  LastForwarded /\ LastParts.matched
  /\ LastParts.messageType = MESSAGE_TICKING_FEEDBACK_PREFIX

\* C17: a status line invokes no callback and no observer, raises nothing
\* and leaves the pending table unchanged, also when its digits are the id
\* of a pending command.
C17_StatusSettlesNothing ==
  LastIsTick =>
    /\ last.calls = <<>>
    /\ last.reported = <<>>
    /\ last.fault = NoError
    /\ last.after = last.before

\* a status line whose digits are the id of a pending command
C17_Witness ==
  /\ LastIsTick
  /\ last.line.id = "1"
  /\ 1 \in DOMAIN last.before
  /\ last.before[1].state = "live"

\* C18: an error line invokes no callback of, and changes no entry of, a
\* pending id other than the one it carries.
C18_ErrorTouchesOnlyItsId ==
  LastIsError =>
    \A k \in DOMAIN last.before :
      NumberToString(k) # LastParts.messageId =>
        /\ last.after[k] = last.before[k]
        /\ \A c \in DOMAIN last.calls :
             last.calls[c].callback # last.before[k].callback

\* ids 1 and 2 pending, an error line for id 1 fails request 1 only
C18_Witness ==
  /\ LastIsError
  /\ last.line.id = "1"
  /\ Len(last.calls) = 1
  /\ 2 \in DOMAIN last.before
  /\ last.before[2].state = "live"
  /\ last.after[2].state = "live"

\* the step is the delivery to incoming() of a reply or error line that
\* carries the id k
StepDeliversLineFor(k) ==
  /\ nLines' = nLines + 1
  /\ last'.gate = "forwarded"
  /\ last'.line.marker \in {MESSAGE_GCODE_RECEIVE_PREFIX, MESSAGE_ERROR_PREFIX}
  /\ last'.line.id = NumberToString(k)

\* C19: a pending request is removed, and its callback invoked, only by the
\* delivery of a reply or error line carrying its own id; nothing else
\* (no timeout, retry or cancellation) touches it, and a sendGCode call
\* causes at most one write, made during the call.
C19_OnlyOwnLineSettles ==
  [][ /\ \A k \in DOMAIN waitingResponses :
           waitingResponses[k].state = "live" =>
             /\ k \in DOMAIN waitingResponses'
             /\ (waitingResponses'[k] # waitingResponses[k]
                 \/ \E c \in (Len(calls) + 1)..Len(calls') :
                      calls'[c].callback = waitingResponses[k].callback)
                  => StepDeliversLineFor(k)
      /\ Len(written') <= Len(written) + 1
      /\ Len(written') > Len(written) => Len(sendLog') = Len(sendLog) + 1
      /\ Len(written') >= Len(written)
    ]_vars

\* request 1 written and still pending after all lines, of which two were
\* delivered to incoming(), have been received
C19_Witness ==
  /\ nLines = MaxLines
  /\ dataEmits >= 2
  /\ Len(sendLog) >= 1
  /\ sendLog[1].wrote
  /\ waitingResponses[1].state = "live"
  /\ \A c \in DOMAIN calls : calls[c].callback # sendLog[1].callback

\* the sendGCode calls that wrote to the port, in call order
WroteSends == SelectSeq(sendLog, LAMBDA e : e.wrote)

\* C20: the lines written to the port are, in order, one line
\* <send-prefix><id><space><commandText><newline> per sendGCode call made
\* while ready, with the id under which that call registered its request.
C20_WrittenLinesFramed ==
  /\ Len(written) = Len(WroteSends)
  /\ \A i \in DOMAIN written :
       /\ written[i] = MESSAGE_GCODE_SEND_PREFIX \o NumberToString(WroteSends[i].id)
                         \o " " \o WroteSends[i].command \o "\n"
       /\ WroteSends[i].id \in DOMAIN waitingResponses

\* two commands written while ready, the second framed with id 2
C20_Witness ==
  /\ Len(written) = 2
  /\ written[2] = MESSAGE_GCODE_SEND_PREFIX \o "2 P2220\n"
  /\ sendLog[2].id = 2

\* C14 (as claimed): when the device fails to open for an open() call, the
\* failure is surfaced: the promise of open() is rejected or the error
\* observer onError has been notified.
C14_OpenFailureSurfaced ==
  \A i \in openFaults : opens[i] = "rejected" \/ reported # <<>>

\* C15 (as claimed): setGripper resolves after the delay the caller passed,
\* and after the defaults (2500 ms on, 1400 ms off) only when none is passed.
C15_GripperWaitsCallerDelay ==
  gripper.pc = "resolved" =>
    gripper.waited =
      (IF gripper.delay # NoDelay THEN gripper.delay
       ELSE IF gripper.on THEN GRIPPER_WAIT_ON ELSE GRIPPER_WAIT_OFF)

\* C21 (as claimed): every live entry of the pending table belongs to a
\* command that was written to the port; a sendGCode call whose write was
\* dropped registered no request and consumed no message id.
C21_PendingOnlyForWrittenCommands ==
  /\ \A k \in DOMAIN waitingResponses :
       waitingResponses[k].state = "live" =>
         \E s \in DOMAIN sendLog : sendLog[s].id = k /\ sendLog[s].wrote
  /\ \A s \in DOMAIN sendLog :
       ~sendLog[s].wrote => sendLog[s].id \notin DOMAIN waitingResponses
  /\ messageId = Len(WroteSends) + 1

\* C22 (as claimed): once the sentinel has been received, the promise of
\* every open() call, made before or after it, eventually resolves, unless
\* it was rejected at once because serialport.open threw.
C22_OpenEventuallyResolves ==
  \A i \in 1..MaxOpens :
    [](( i \in DOMAIN opens /\ readyEmits >= 1 /\ opens[i] # "rejected")
         => <>(i \in DOMAIN opens /\ opens[i] = "resolved"))

KeysAreIds(wr, m) ==
  /\ DOMAIN wr = 1..(m - 1)
  /\ \A k \in DOMAIN wr : wr[k].state \in {"live", "null"}

\* C23: before and after every step the keys of the pending table are
\* exactly 1 .. messageId - 1, each holding a live request or null, and a
\* key that holds null holds null after the step: no key is deleted and a
\* settled id never becomes live again.
C23_KeysAreAssignedIds ==
  [][/\ KeysAreIds(waitingResponses, messageId)
     /\ KeysAreIds(waitingResponses', messageId')
     /\ \A k \in DOMAIN waitingResponses :
          waitingResponses[k].state = "null" =>
            /\ k \in DOMAIN waitingResponses'
            /\ waitingResponses'[k].state = "null"]_vars

\* two ids assigned, the first settled and nulled, the second still live
C23_Witness ==
  /\ messageId = 3
  /\ DOMAIN waitingResponses = {1, 2}
  /\ waitingResponses[1].state = "null"
  /\ waitingResponses[2].state = "live"

====
